---- MODULE Spec2Model ----
(***************************************************************************)
(* Transaction tracker of SoundPatch-AI: the Redis-backed status record    *)
(* transaction:<id>, the upload route that creates it, the background task *)
(* that advances it, and the status read path.                             *)
(***************************************************************************)
EXTENDS Naturals, Sequences, FiniteSets, TLC

\* Number of upload requests (and so of transaction ids) in the model.
MaxTx == 2
\* Largest value of the wall clock (datetime.now) in the model.
MaxClock == 1
\* Number of update_transaction_status calls the tracker's direct client makes.
MaxWrites == 2
\* Number of FileService upload calls, of either kind.
MaxFileCalls == 2

TxIds == 1..MaxTx
\* The ids a status poller asks for.  Requests are alike in everything but their
\* id and a read changes nothing, so one polled id stands for any.
PolledIds == {1}
\* The ids the tracker's direct client writes: the polled id and another one.
ClientIds == {1, 2}
FileCalls == 1..MaxFileCalls

(***************************************************************************)
(* Python values, as tagged tuples:                                        *)
(*   <<"str", s>>  <<"int", n>>  <<"None">>                                *)
(*   <<"list", items>>  <<"tuple", items>>  <<"dict", <<k, v>> pairs>>     *)
(* A dict keeps insertion order; its keys are strings.                     *)
(***************************************************************************)
PyNone == <<"None">>
PyStr(s) == <<"str", s>>
PyInt(n) == <<"int", n>>
PyList(items) == <<"list", items>>
PyTuple(items) == <<"tuple", items>>
PyDict(pairs) == <<"dict", pairs>>
EmptyDict == PyDict(<<>>)

\* bool(v) for the values `metadata` can take: None and {} are falsy.
Truthy(v) ==
  CASE v[1] = "None" -> FALSE
    [] v[1] \in {"dict", "list", "tuple"} -> Len(v[2]) > 0
    [] v[1] = "str" -> v[2] # ""
    [] OTHER -> TRUE

(***************************************************************************)
(* JSON text, as the sequence of its lexical tokens <<kind, text>>.        *)
(***************************************************************************)
TokLBrace == <<"punct", "{">>
TokRBrace == <<"punct", "}">>
TokLBracket == <<"punct", "[">>
TokRBracket == <<"punct", "]">>
TokColon == <<"punct", ":">>
TokComma == <<"punct", ",">>
TokNull == <<"null", "null">>
TokString(s) == <<"string", s>>
TokNumber(n) == <<"number", n>>

\* The literal "{}" that update_transaction_status stores for falsy metadata.
EmptyObjectText == <<TokLBrace, TokRBrace>>

RECURSIVE json_dumps(_)
RECURSIVE DumpItems(_, _)
RECURSIVE DumpMembers(_, _)

\* json.dumps: a tuple is written as an array, exactly like a list.
json_dumps(v) ==
  CASE v[1] = "str" -> <<TokString(v[2])>>
    [] v[1] = "int" -> <<TokNumber(v[2])>>
    [] v[1] = "None" -> <<TokNull>>
    [] v[1] \in {"list", "tuple"} -> <<TokLBracket>> \o DumpItems(v[2], 1) \o <<TokRBracket>>
    [] v[1] = "dict" -> <<TokLBrace>> \o DumpMembers(v[2], 1) \o <<TokRBrace>>

DumpItems(items, i) ==
  IF i > Len(items) THEN <<>>
  ELSE json_dumps(items[i])
       \o (IF i < Len(items) THEN <<TokComma>> ELSE <<>>)
       \o DumpItems(items, i + 1)

DumpMembers(pairs, i) ==
  IF i > Len(pairs) THEN <<>>
  ELSE <<TokString(pairs[i][1]), TokColon>> \o json_dumps(pairs[i][2])
       \o (IF i < Len(pairs) THEN <<TokComma>> ELSE <<>>)
       \o DumpMembers(pairs, i + 1)

ParseFail == [ok |-> FALSE, val |-> PyNone, next |-> 0]
ParseOk(v, n) == [ok |-> TRUE, val |-> v, next |-> n]

RECURSIVE DictSetAt(_, _, _, _)
\* d[k] = v on an ordered dict: a repeated key keeps its place, takes the new value.
DictSetAt(pairs, k, v, i) ==
  IF i > Len(pairs) THEN Append(pairs, <<k, v>>)
  ELSE IF pairs[i][1] = k THEN [pairs EXCEPT ![i] = <<k, v>>]
  ELSE DictSetAt(pairs, k, v, i + 1)

RECURSIVE DictGet(_, _, _)
\* d[k] on an ordered dict that holds k.
DictGet(pairs, k, i) ==
  IF pairs[i][1] = k THEN pairs[i][2] ELSE DictGet(pairs, k, i + 1)

RECURSIVE ParseValue(_, _)
RECURSIVE ParseItems(_, _, _)
RECURSIVE ParseMembers(_, _, _)

\* The JSON decoder: the value that starts at token i, and where it ends.
ParseValue(t, i) ==
  IF i > Len(t) THEN ParseFail
  ELSE CASE t[i][1] = "string" -> ParseOk(PyStr(t[i][2]), i + 1)
         [] t[i][1] = "number" -> ParseOk(PyInt(t[i][2]), i + 1)
         [] t[i][1] = "null" -> ParseOk(PyNone, i + 1)
         [] t[i] = TokLBracket ->
              IF i + 1 <= Len(t) /\ t[i + 1] = TokRBracket
              THEN ParseOk(PyList(<<>>), i + 2)
              ELSE ParseItems(t, i + 1, <<>>)
         [] t[i] = TokLBrace ->
              IF i + 1 <= Len(t) /\ t[i + 1] = TokRBrace
              THEN ParseOk(EmptyDict, i + 2)
              ELSE ParseMembers(t, i + 1, <<>>)
         [] OTHER -> ParseFail

ParseItems(t, i, acc) ==
  LET r == ParseValue(t, i) IN
  IF ~r.ok \/ r.next > Len(t) THEN ParseFail
  ELSE IF t[r.next] = TokRBracket THEN ParseOk(PyList(Append(acc, r.val)), r.next + 1)
  ELSE IF t[r.next] = TokComma THEN ParseItems(t, r.next + 1, Append(acc, r.val))
  ELSE ParseFail

ParseMembers(t, i, acc) ==
  IF i + 1 > Len(t) \/ t[i][1] # "string" \/ t[i + 1] # TokColon THEN ParseFail
  ELSE LET r == ParseValue(t, i + 2) IN
       IF ~r.ok \/ r.next > Len(t) THEN ParseFail
       ELSE IF t[r.next] = TokRBrace
            THEN ParseOk(PyDict(DictSetAt(acc, t[i][2], r.val, 1)), r.next + 1)
       ELSE IF t[r.next] = TokComma
            THEN ParseMembers(t, r.next + 1, DictSetAt(acc, t[i][2], r.val, 1))
       ELSE ParseFail

\* json.loads: ok = FALSE stands for json.JSONDecodeError (also on trailing data).
json_loads(t) ==
  LET r == ParseValue(t, 1) IN
  IF r.ok /\ r.next = Len(t) + 1 THEN [ok |-> TRUE, val |-> r.val]
  ELSE [ok |-> FALSE, val |-> PyNone]

(***************************************************************************)
(* The Redis key space transaction:<id>.  A hash is a function from field  *)
(* names to values; a key with no fields does not exist.                   *)
(***************************************************************************)
EmptyHash == <<>>
Statuses == {"pending", "processing", "completed", "error"}

\* Fault: a metadata field that exists is extended, not replaced.
hmset_append(h, data) ==
  [f \in (DOMAIN h) \cup (DOMAIN data) |->
     IF f \notin DOMAIN data THEN h[f]
     ELSE IF f = "metadata" /\ f \in DOMAIN h THEN h[f] \o data[f]
     ELSE data[f]]

\* HMSET key mapping: sets the given fields, keeps the others.
hmset(h, data) ==
  [f \in (DOMAIN h) \cup (DOMAIN data) |-> IF f \in DOMAIN data THEN data[f] ELSE h[f]]

\* EXISTS key.
exists(h) == DOMAIN h # {}

\* What a store call can do: answer, or raise a connection error.
StoreOutcomes == {"ok", "down"}

VARIABLES
  store,    \* Redis: transaction id -> hash stored under transaction:<id>
  clock,    \* datetime.now(UTC)
  up,       \* upload_audio, one request per id: [pc, err]
  bg,       \* process_audio_background, one task per id: [pc, exc, result] and,
            \* as history, term: the first terminal status the task wrote with
            \* success, and notif: how update_user_transactions ended
  blobs,    \* files saved by the storage service: <<id, "raw" | "processed">>
  rd,       \* a caller of get_transaction_status: its call frame and result
  wr,       \* a caller of update_transaction_status: its call frame and result
  called,   \* ids for which update_transaction_status has been executed
  lastOk,   \* id -> the (status, metadata) of the last update that returned
            \*       successfully with no later write to the id, or NoWrite
  hist,     \* id -> the statuses upload_audio and process_audio_background had
            \*       the store accept for the id (HMSET acknowledged), in order
  acked,    \* id -> how much of hist[id] was stored when an update of the route or
            \*       its task last returned successfully; 0 when none has
  allocated,    \* the transaction ids uuid4 has generated
  tasks,        \* id -> the number of tasks background_tasks.add_task was given
                \*       for the id
  decoded,      \* id -> duration_seconds measured by process_audio; 0 when none
  refused,      \* id -> the file of the upload when validate_audio_file refused
                \*       it, NoFile otherwise
  files,        \* Redis hash "files": file id -> JSON text of the file record
  transactions, \* Redis hash "transactions": transaction id -> JSON text
  media,        \* the paths StorageService.upload_file has written
  fcall         \* the calls of FileService.upload_file and upload_zoom_recording:
                \* [pc, op, arg, raised]

vars == <<store, clock, up, bg, blobs, rd, wr, called, lastOk,
          hist, acked, allocated, tasks, decoded,
          refused, files, transactions, media, fcall>>

\* key = f"transaction:{transaction_id}": the place of the record in the store.
key_shared(transaction_id) == 1

key(transaction_id) == transaction_id

(***************************************************************************)
(* BaseAudioService.update_transaction_status                              *)
(***************************************************************************)
\* Fault: the metadata argument is never serialised.
status_data_no_metadata(status, metadata, now) ==
  [status |-> status, updated_at |-> now, metadata |-> EmptyObjectText]

\* Fault: updated_at is a fixed time, not the time of the write.
status_data_fixed_time(status, metadata, now) ==
  [status |-> status,
   updated_at |-> 0,
   metadata |-> IF Truthy(metadata) THEN json_dumps(metadata) ELSE EmptyObjectText]

\* The three fields written together; falsy metadata is stored as "{}".
status_data(status, metadata, now) ==
  [status |-> status,
   updated_at |-> now,
   metadata |-> IF Truthy(metadata) THEN json_dumps(metadata) ELSE EmptyObjectText]

\* Fault: the fields of a record that exists are not overwritten.
update_hmset_create_only(h, status, metadata, now, outcome) ==
  IF outcome = "ok" /\ DOMAIN h = {} THEN hmset(h, status_data(status, metadata, now)) ELSE h

\* Fault: a record that holds a terminal status is not overwritten.
update_hmset_terminal_kept(h, status, metadata, now, outcome) ==
  IF outcome = "ok" /\ ~("status" \in DOMAIN h /\ h["status"] \in {"completed", "error"})
  THEN hmset(h, status_data(status, metadata, now))
  ELSE h

\* Fault: the metadata of a record that exists is kept, only status and
\* updated_at are written.
update_hmset_metadata_kept(h, status, metadata, now, outcome) ==
  IF outcome # "ok" THEN h
  ELSE IF "metadata" \in DOMAIN h
       THEN hmset(h, [status |-> status, updated_at |-> now])
  ELSE hmset(h, status_data(status, metadata, now))

\* The hash under the key after `await redis_client.hmset(key, status_data)`.
update_hmset(h, status, metadata, now, outcome) ==
  IF outcome = "ok" THEN hmset(h, status_data(status, metadata, now)) ELSE h

\* Fault: an exception of the read-back is swallowed.
update_verify_swallowed(stored_data, outcome) ==
  IF DOMAIN stored_data = {} THEN "RedisConnectionError" ELSE "ok"

\* The read-back: hgetall, `if not stored_data: raise`, and the except clause
\* that turns every exception into RedisConnectionError.
update_verify(stored_data, outcome) ==
  IF outcome = "down" THEN "RedisConnectionError"
  ELSE IF DOMAIN stored_data = {} THEN "RedisConnectionError"
  ELSE "ok"

\* The whole call: the result it reports, from the outcomes of its two store calls
\* (a failed hmset raises before the read-back is made).
update_transaction_status(h, status, metadata, now, o1, o2) ==
  LET h2 == update_hmset(h, status, metadata, now, o1) IN
  [hash |-> h2,
   result |-> IF o1 = "down" THEN "RedisConnectionError" ELSE update_verify(h2, o2)]

\* hist after a status write: the status is appended when the HMSET was accepted.
hist_after(h, status, o1) == IF o1 = "ok" THEN Append(h, status) ELSE h

\* acked after a status write to an id with history h: all of h when the call
\* returned successfully.
acked_after(a, h, result) == IF result = "ok" THEN Len(h) ELSE a

(***************************************************************************)
(* BaseAudioService.get_transaction_status                                 *)
(***************************************************************************)
\* Fault: without the `except TransactionNotFoundError: raise` clause the generic
\* except clause wraps the not-found error.
get_exists_wrapped(h, outcome) ==
  IF outcome = "down" \/ DOMAIN h = {} THEN "RedisConnectionError" ELSE "continue"

\* `exists = await redis_client.exists(key)` and the test on it:
\* "continue" goes on to hgetall.
get_exists(h, outcome) ==
  IF outcome = "down" THEN "RedisConnectionError"
  ELSE IF ~exists(h) THEN "TransactionNotFoundError"
  ELSE "continue"

\* Fault: the except clause of the parse does not reset the field.
parse_metadata_kept(status_data_) ==
  IF "metadata" \in DOMAIN status_data_
  THEN LET r == json_loads(status_data_["metadata"]) IN
       [status_data_ EXCEPT !["metadata"] = IF r.ok THEN r.val ELSE @]
  ELSE status_data_

\* The metadata field parsed; a JSONDecodeError degrades to {}.
parse_metadata(status_data_) ==
  IF "metadata" \in DOMAIN status_data_
  THEN LET r == json_loads(status_data_["metadata"]) IN
       [status_data_ EXCEPT !["metadata"] = IF r.ok THEN r.val ELSE EmptyDict]
  ELSE status_data_

\* Fault: the hash hgetall returned is not tested for emptiness.
get_hgetall_unchecked(h, outcome) ==
  IF outcome = "down" THEN [kind |-> "RedisConnectionError", data |-> EmptyHash]
  ELSE [kind |-> "ok", data |-> parse_metadata(h)]

\* `status_data = await redis_client.hgetall(key)` and what is returned.
get_hgetall(h, outcome) ==
  IF outcome = "down" THEN [kind |-> "RedisConnectionError", data |-> EmptyHash]
  ELSE IF DOMAIN h = {} THEN [kind |-> "TransactionNotFoundError", data |-> EmptyHash]
  ELSE [kind |-> "ok", data |-> parse_metadata(h)]

(***************************************************************************)
(* ValidationService.validate_audio_file                                   *)
(***************************************************************************)
max_file_size_mb == 50
supported_formats == {"wav", "mp3", "ogg", "flac", "m4a", "aac"}

\* str.lower() on the content types of the model.
Lower(s) == IF s = "AUDIO/WAV" THEN "audio/wav" ELSE s

\* mime_to_extension.get(content_type): "" stands for None.
mime_to_extension(ct) ==
  CASE ct = "audio/mpeg" -> "mp3"
    [] ct \in {"audio/wav", "audio/wave", "audio/x-wav"} -> "wav"
    [] ct = "audio/ogg" -> "ogg"
    [] ct \in {"audio/flac", "audio/x-flac"} -> "flac"
    [] ct = "audio/mp4" -> "m4a"
    [] ct \in {"audio/aac", "audio/x-aac"} -> "aac"
    [] OTHER -> ""

\* UploadFile.content_type of a part sent without a Content-Type header: None.
NoContentType == "<None>"

\* content_type.lower() raises AttributeError on None.
_validate_file_type(content_type) ==
  IF content_type = NoContentType THEN "AttributeError"
  ELSE LET file_extension == mime_to_extension(Lower(content_type)) IN
       IF file_extension = "" \/ file_extension \notin supported_formats
       THEN "FileFormatError" ELSE "ok"

\* len(content) / (1024 * 1024) > max_file_size_mb, on whole bytes.
_validate_file_size(nbytes) ==
  IF nbytes > max_file_size_mb * 1024 * 1024 THEN "FileSizeError" ELSE "ok"

\* The type is checked first, then the content is read and its size checked.
validate_audio_file(file) ==
  IF _validate_file_type(file.content_type) # "ok" THEN _validate_file_type(file.content_type)
  ELSE _validate_file_size(file.size)

\* The uploads of the model: a supported and an unsupported type, mixed case,
\* no type at all, and sizes at and just over the limit.
UploadFiles ==
  [content_type : {"audio/wav", "AUDIO/WAV", "text/plain", NoContentType},
   size : {max_file_size_mb * 1024 * 1024, max_file_size_mb * 1024 * 1024 + 1}]

(***************************************************************************)
(* BaseAudioService.process_audio                                          *)
(***************************************************************************)
max_duration_seconds == 300

\* What librosa and the storage service do with a saved file.
AudioFiles ==
  [load_ok : BOOLEAN, duration : {max_duration_seconds, max_duration_seconds + 1},
   sr : {16000}, preprocess_ok : BOOLEAN, save_ok : BOOLEAN, predict_ok : BOOLEAN]

processed_path(t) == <<"processed", t>>

\* Fault: a duration equal to the maximum is refused as well.
duration_exceeds_or_equal(duration_seconds) == duration_seconds >= max_duration_seconds

\* if duration_seconds > self.config.max_duration_seconds
duration_exceeds(duration_seconds) == duration_seconds > max_duration_seconds

\* Fault: the processed audio is saved before the duration is checked.
process_audio_save_first(t, f) ==
  IF ~f.load_ok THEN [raised |-> "ProcessingError", result |-> PyNone, saved |-> FALSE]
  ELSE IF duration_exceeds(f.duration)
       THEN [raised |-> "AudioDurationError", result |-> PyNone,
             saved |-> f.preprocess_ok /\ f.save_ok]
  ELSE IF ~f.preprocess_ok
       THEN [raised |-> "ProcessingError", result |-> PyNone, saved |-> FALSE]
  ELSE IF ~f.save_ok THEN [raised |-> "StorageError", result |-> PyNone, saved |-> FALSE]
  ELSE [raised |-> "none",
        result |-> PyDict(<< <<"duration", PyInt(f.duration)>>,
                             <<"sample_rate", PyInt(f.sr)>>,
                             <<"channels", PyInt(1)>>,
                             <<"processed_path", PyStr(processed_path(t))>>,
                             <<"status", PyStr("completed")>> >>),
        saved |-> TRUE]

\* The result dict, or the exception raised; `saved` tells whether the processed
\* audio reached the storage service.
process_audio(t, f) ==
  IF ~f.load_ok THEN [raised |-> "ProcessingError", result |-> PyNone, saved |-> FALSE]
  ELSE IF duration_exceeds(f.duration)
       THEN [raised |-> "AudioDurationError", result |-> PyNone, saved |-> FALSE]
  ELSE IF ~f.preprocess_ok
       THEN [raised |-> "ProcessingError", result |-> PyNone, saved |-> FALSE]
  ELSE IF ~f.save_ok THEN [raised |-> "StorageError", result |-> PyNone, saved |-> FALSE]
  ELSE [raised |-> "none",
        result |-> PyDict(<< <<"duration", PyInt(f.duration)>>,
                             <<"sample_rate", PyInt(f.sr)>>,
                             <<"channels", PyInt(1)>>,
                             <<"processed_path", PyStr(processed_path(t))>>,
                             <<"status", PyStr("completed")>> >>),
        saved |-> TRUE]

(***************************************************************************)
(* AudioService.process_audio (the FULL service) and the service the       *)
(* factory hands to the route                                              *)
(***************************************************************************)
\* result["predictions"]: the flattened model output and its shape, a tuple.
predictions ==
  PyDict(<< <<"sequence", PyList(<<PyInt(0), PyInt(1)>>)>>,
            <<"shape", PyTuple(<<PyInt(2)>>)>> >>)

\* The base result with the predictions added.  An exception of the base call
\* passes unchanged; one of the load, the preprocessing or the prediction
\* becomes ProcessingError, the processed audio being saved already.
AudioService_process_audio(t, f) ==
  LET r == process_audio(t, f) IN
  IF r.raised # "none" THEN r
  ELSE IF ~f.predict_ok
       THEN [raised |-> "ProcessingError", result |-> PyNone, saved |-> r.saved]
  ELSE [r EXCEPT !.result = PyDict(DictSetAt(r.result[2], "predictions", predictions, 1))]

\* ServiceType: BASIC is the default.  Every worker process reads its own
\* configuration, so the tasks of one store need not all run the same service.
ServiceType == {"basic", "full"}

\* audio_service.process_audio of the service create_audio_service returned.
audio_service_process_audio(st, t, f) ==
  IF st = "full" THEN AudioService_process_audio(t, f) ELSE process_audio(t, f)

(***************************************************************************)
(* upload_audio                                                            *)
(***************************************************************************)
\* uuid.uuid4(): request t is given the id t, a fresh one for every request.
uuid4(t) == t

pending_metadata(t, now) ==
  PyDict(<< <<"filename", PyStr(<<"file", t>>)>>,
            <<"user_id", PyStr("user")>>,
            <<"upload_time", PyStr(now)>> >>)

\* What upload_audio does with the result of the validation: a
\* FileValidationError is re-raised, any other exception is wrapped in
\* ProcessingError by the last except clause.
upload_after_validate(v) ==
  IF v = "ok" THEN [pc |-> "validated", err |-> "none"]
  ELSE IF v \in {"FileFormatError", "FileSizeError"} THEN [pc |-> "rejected", err |-> v]
  ELSE [pc |-> "rejected", err |-> "ProcessingError"]

NoFile == [content_type |-> "", size |-> 0]

\* await validation_service.validate_audio_file(file)
UploadValidate(t) ==
  /\ up[t].pc = "idle"
  /\ \E file \in UploadFiles :
       /\ up' = [up EXCEPT ![t] = upload_after_validate(validate_audio_file(file))]
       /\ refused' = [refused EXCEPT ![t] =
                        IF validate_audio_file(file) = "ok" THEN NoFile ELSE file]
  /\ UNCHANGED <<files, transactions, media, fcall,
               store, clock, bg, blobs, rd, wr, called, lastOk,
               hist, acked, allocated, tasks, decoded>>

\* Fault: the upload goes on after a pending write that failed.
upload_after_pending_swallowed(result) == [pc |-> "pending_ok", err |-> "none"]

\* What upload_audio does with the result of its pending write: a
\* RedisConnectionError is none of the three re-raised kinds, so the last except
\* clause wraps it in ProcessingError.
upload_after_pending(result) ==
  IF result = "ok" THEN [pc |-> "pending_ok", err |-> "none"]
  ELSE [pc |-> "failed", err |-> "ProcessingError"]

\* transaction_id = uuid4(); await update_transaction_status(id, "pending", {...})
UploadPending(t) ==
  /\ up[t].pc = "validated"
  /\ \E o1 \in StoreOutcomes, o2 \in StoreOutcomes :
       LET id == uuid4(t)
           u == update_transaction_status(store[key(id)], "pending",
                                          pending_metadata(t, clock), clock, o1, o2)
       IN /\ store' = [store EXCEPT ![key(id)] = u.hash]
          /\ called' = called \cup {id}
          /\ allocated' = allocated \cup {id}
          /\ hist' = [hist EXCEPT ![id] = hist_after(@, "pending", o1)]
          /\ acked' = [acked EXCEPT ![id] = acked_after(@, hist'[id], u.result)]
          /\ up' = [up EXCEPT ![t] = upload_after_pending(u.result)]
  /\ UNCHANGED <<refused, files, transactions, media, fcall,
               clock, bg, blobs, rd, wr, lastOk,
               tasks, decoded>>

\* file_path = await audio_service.save_file(content, file.filename)
UploadSaveFile(t) ==
  /\ up[t].pc = "pending_ok"
  /\ \E ok \in BOOLEAN :
       /\ up' = [up EXCEPT ![t] = IF ok THEN [pc |-> "saved", err |-> "none"]
                                   ELSE [pc |-> "failed", err |-> "StorageError"]]
       /\ blobs' = IF ok THEN blobs \cup {<<t, "raw">>} ELSE blobs
  /\ UNCHANGED <<refused, files, transactions, media, fcall,
               store, clock, bg, rd, wr, called, lastOk,
               hist, acked, allocated, tasks, decoded>>

\* Fault: the task is added twice.
add_task_twice(queue, transaction_id) == [queue EXCEPT ![transaction_id] = @ + 2]

\* background_tasks.add_task(process_audio_background, transaction_id, ...)
add_task(queue, transaction_id) == [queue EXCEPT ![transaction_id] = @ + 1]

\* background_tasks.add_task(...); return response.  No await lies between the
\* two; the task itself runs after the response has been sent.
UploadReturn(t) ==
  /\ up[t].pc = "saved"
  /\ up' = [up EXCEPT ![t].pc = "returned"]
  /\ tasks' = add_task(tasks, uuid4(t))
  /\ bg' = [bg EXCEPT ![uuid4(t)].pc = "scheduled"]
  /\ UNCHANGED <<refused, files, transactions, media, fcall,
               store, clock, blobs, rd, wr, called, lastOk,
               hist, acked, allocated, decoded>>

(***************************************************************************)
(* process_audio_background                                                *)
(***************************************************************************)
\* Where the task goes after a status write inside the try block: on, or into
\* the except clause with the exception caught.
bg_after_write(b, result, next) ==
  IF result = "ok" THEN [b EXCEPT !.pc = next]
  ELSE [b EXCEPT !.pc = "handler", !.exc = result]

\* await update_transaction_status(transaction_id, "processing")
BgProcessing(t) ==
  /\ bg[t].pc = "scheduled"
  /\ \E o1 \in StoreOutcomes, o2 \in StoreOutcomes :
       LET u == update_transaction_status(store[key(t)], "processing", PyNone, clock, o1, o2) IN
       /\ store' = [store EXCEPT ![key(t)] = u.hash]
       /\ hist' = [hist EXCEPT ![t] = hist_after(@, "processing", o1)]
       /\ acked' = [acked EXCEPT ![t] = acked_after(@, hist'[t], u.result)]
       /\ bg' = [bg EXCEPT ![t] = bg_after_write(@, u.result, "processing_ok")]
  /\ called' = called \cup {t}
  /\ UNCHANGED <<refused, files, transactions, media, fcall,
               clock, up, blobs, rd, wr, lastOk,
               allocated, tasks, decoded>>

\* Fault: an exception of process_audio ends the task with no error write.
bg_after_process_dropped(b, r) ==
  IF r.raised = "none" THEN [b EXCEPT !.pc = "processed", !.result = r.result]
  ELSE [b EXCEPT !.pc = "done", !.exc = r.raised]

\* Where the task goes after process_audio: on with the result, or into the
\* except clause with the exception it raised.
bg_after_process(b, r) ==
  IF r.raised = "none" THEN [b EXCEPT !.pc = "processed", !.result = r.result]
  ELSE [b EXCEPT !.pc = "handler", !.exc = r.raised]

\* result = await audio_service.process_audio(file_path)
BgProcessAudio(t) ==
  /\ bg[t].pc = "processing_ok"
  /\ \E f \in AudioFiles, st \in ServiceType :
       LET r == audio_service_process_audio(st, t, f) IN
       /\ bg' = [bg EXCEPT ![t] = bg_after_process(@, r)]
       /\ blobs' = IF r.saved THEN blobs \cup {<<t, "processed">>} ELSE blobs
       /\ decoded' = [decoded EXCEPT ![t] = IF f.load_ok THEN f.duration ELSE @]
  /\ UNCHANGED <<refused, files, transactions, media, fcall,
               store, clock, up, rd, wr, called, lastOk,
               hist, acked, allocated, tasks>>

\* Fault: the final write passes a word that is no status.
result_status_unknown(result) == "done"

\* Fault: the final write repeats the status of the running task.
result_status_processing(result) == "processing"

\* Fault: the final write repeats the initial status.
result_status_initial(result) == "pending"

\* result["status"]
result_status(result) == DictGet(result[2], "status", 1)[2]

\* await update_transaction_status(transaction_id, result["status"], result)
BgFinal(t) ==
  /\ bg[t].pc = "processed"
  /\ \E o1 \in StoreOutcomes, o2 \in StoreOutcomes :
       LET u == update_transaction_status(store[key(t)], result_status(bg[t].result),
                                          bg[t].result, clock, o1, o2)
           b == bg_after_write(bg[t], u.result, "final_ok")
       IN /\ store' = [store EXCEPT ![key(t)] = u.hash]
          /\ hist' = [hist EXCEPT ![t] = hist_after(@, result_status(bg[t].result), o1)]
          /\ acked' = [acked EXCEPT ![t] = acked_after(@, hist'[t], u.result)]
          /\ bg' = [bg EXCEPT ![t] =
                      IF u.result = "ok" THEN [b EXCEPT !.term = "completed"] ELSE b]
  /\ UNCHANGED <<refused, files, transactions, media, fcall,
               clock, up, blobs, rd, wr, called, lastOk,
               allocated, tasks, decoded>>

\* Where the task goes after auth_service.update_user_transactions: the call
\* stands inside the try block, so its AuthenticationError reaches the except
\* clause like any other exception.
bg_after_notify(b, ok) ==
  IF ok THEN [b EXCEPT !.pc = "done", !.notif = "ok"]
  ELSE [b EXCEPT !.pc = "handler", !.exc = "AuthenticationError", !.notif = "failed"]

\* await auth_service.update_user_transactions(user_id, transaction_id, {...})
BgNotify(t) ==
  /\ bg[t].pc = "final_ok"
  /\ \E ok \in BOOLEAN : bg' = [bg EXCEPT ![t] = bg_after_notify(@, ok)]
  /\ UNCHANGED <<refused, files, transactions, media, fcall,
               store, clock, up, blobs, rd, wr, called, lastOk,
               hist, acked, allocated, tasks, decoded>>

error_metadata(exc) == PyDict(<< <<"error", PyStr(exc)>> >>)

\* Fault: the except clause re-raises the exception after its error write.
bg_after_handler_reraised(b, result) ==
  IF result = "ok" THEN [b EXCEPT !.pc = "crashed", !.term = IF @ = "none" THEN "error" ELSE @]
  ELSE [b EXCEPT !.pc = "crashed", !.exc = result]

\* Where the task ends after the write of the except clause: that write is not
\* guarded, so its RedisConnectionError leaves the task.
bg_after_handler(b, result) ==
  IF result = "ok" THEN [b EXCEPT !.pc = "done", !.term = IF @ = "none" THEN "error" ELSE @]
  ELSE [b EXCEPT !.pc = "crashed", !.exc = result]

\* except Exception as e: await update_transaction_status(id, "error", {"error": str(e)})
BgHandler(t) ==
  /\ bg[t].pc = "handler"
  /\ \E o1 \in StoreOutcomes, o2 \in StoreOutcomes :
       LET u == update_transaction_status(store[key(t)], "error", error_metadata(bg[t].exc),
                                          clock, o1, o2)
       IN /\ store' = [store EXCEPT ![key(t)] = u.hash]
          /\ hist' = [hist EXCEPT ![t] = hist_after(@, "error", o1)]
          /\ acked' = [acked EXCEPT ![t] = acked_after(@, hist'[t], u.result)]
          /\ bg' = [bg EXCEPT ![t] = bg_after_handler(@, u.result)]
  /\ UNCHANGED <<refused, files, transactions, media, fcall,
               clock, up, blobs, rd, wr, called, lastOk,
               allocated, tasks, decoded>>

(***************************************************************************)
(* A client polling get_transaction_status: two store calls, with other    *)
(* coroutines free to run between them.  Besides the result (kind, data)   *)
(* the frame records what the call met: raw, the hash hgetall returned;    *)
(* down, a store call raised; absent, a store call found no fields;        *)
(* afterReturn, the upload had returned when the read was issued;          *)
(* bgSilent, the background task had written nothing when the read ended;  *)
(* uncalled, update_transaction_status had never run for the id;           *)
(* expect, lastOk of the id when the read ended; vanished, the existence   *)
(* check had found the key and the fetch found no fields.                  *)
(***************************************************************************)
NoWrite == <<"none">>

RdFrame(pc, t, kind, data, raw, down, absent, afterReturn) ==
  [pc |-> pc, id |-> t, kind |-> kind, data |-> data, raw |-> raw, down |-> down,
   absent |-> absent, afterReturn |-> afterReturn,
   bgSilent |-> (pc = "done" /\ bg[t].pc \in {"none", "scheduled"}),
   uncalled |-> (pc = "done" /\ t \notin called),
   vanished |-> (pc = "done" /\ rd.pc = "hgetall" /\ absent),
   expect |-> IF pc = "done" THEN lastOk[t] ELSE NoWrite]

\* exists = await redis_client.exists(key)
ReadExists(t) ==
  /\ rd.pc \in {"idle", "done"}
  /\ \E o \in StoreOutcomes :
       LET r == get_exists(store[key(t)], o) IN
       rd' = IF r = "continue"
             THEN RdFrame("hgetall", t, "none", EmptyHash, EmptyHash, FALSE, FALSE,
                          up[t].pc = "returned")
             ELSE RdFrame("done", t, r, EmptyHash, EmptyHash, o = "down",
                          o = "ok" /\ DOMAIN store[key(t)] = {}, up[t].pc = "returned")
  /\ UNCHANGED <<refused, files, transactions, media, fcall,
               store, clock, up, bg, blobs, wr, called, lastOk,
               hist, acked, allocated, tasks, decoded>>

\* status_data = await redis_client.hgetall(key), and the return
ReadHgetall ==
  /\ rd.pc = "hgetall"
  /\ \E o \in StoreOutcomes :
       LET r == get_hgetall(store[key(rd.id)], o) IN
       rd' = RdFrame("done", rd.id, r.kind, r.data,
                     IF o = "ok" THEN store[key(rd.id)] ELSE EmptyHash, o = "down",
                     o = "ok" /\ DOMAIN store[key(rd.id)] = {}, rd.afterReturn)
  /\ UNCHANGED <<refused, files, transactions, media, fcall,
               store, clock, up, bg, blobs, wr, called, lastOk,
               hist, acked, allocated, tasks, decoded>>

(***************************************************************************)
(* A direct client of the tracker: update_transaction_status with any      *)
(* status and metadata.  Its frame keeps the arguments, the result, the    *)
(* hash its read-back met and whether a store call raised; fresh, the id   *)
(* had no record before the call; repeat, the call has the arguments of    *)
(* the call before it, which returned successfully, nothing having written *)
(* the record in between.                                                  *)
(***************************************************************************)
\* The (status, metadata) pairs the client writes.
WriteInputs ==
  { <<"pending", PyDict(<< <<"a", PyInt(1)>>,
                          <<"k", PyList(<<PyStr("x"), PyNone>>)>>,
                          <<"n", PyDict(<< <<"b", PyList(<<>>)>> >>)>> >>)>>,
    <<"processing", PyNone>>,
    <<"error", EmptyDict>>,
    <<"completed", PyDict(<< <<"shape", PyTuple(<<PyInt(3)>>)>> >>)>> }

WrFrame(n, t, in, u, o1, o2) ==
  [pc |-> "done", n |-> n, id |-> t, status |-> in[1], metadata |-> in[2],
   result |-> u.result, readback |-> u.hash,
   down |-> (o1 = "down" \/ o2 = "down"), lost |-> (o1 = "lost"),
   fresh |-> ~exists(store[key(t)]),
   repeat |-> /\ wr.pc = "done" /\ wr.result = "ok" /\ wr.id = t
              /\ wr.status = in[1] /\ wr.metadata = in[2]
              /\ store[key(t)] = wr.readback]

\* One call of update_transaction_status(t, status, metadata) with the given
\* outcomes of its two store calls.
ClientCall(t, in, o1, o2) ==
  LET u == update_transaction_status(store[key(t)], in[1], in[2], clock, o1, o2) IN
  /\ wr.n < MaxWrites
  /\ store' = [store EXCEPT ![key(t)] = u.hash]
  /\ wr' = WrFrame(wr.n + 1, t, in, u, o1, IF o1 = "down" THEN "ok" ELSE o2)
  /\ called' = called \cup {t}
  /\ lastOk' = [lastOk EXCEPT ![t] = IF u.result = "ok" THEN <<"w", in[1], in[2]>>
                                     ELSE IF o1 = "ok" THEN NoWrite ELSE @]
  /\ UNCHANGED <<refused, files, transactions, media, fcall,
               clock, up, bg, blobs, rd,
               hist, acked, allocated, tasks, decoded>>

ClientUpdate(t) ==
  \E in \in WriteInputs, o1 \in StoreOutcomes, o2 \in StoreOutcomes : ClientCall(t, in, o1, o2)

\* The same call against a store that acknowledges the HMSET and drops it.
ClientUpdateLost(t) ==
  \E in \in WriteInputs, o2 \in StoreOutcomes : ClientCall(t, in, "lost", o2)

\* Metadata texts that are not JSON.
CorruptTexts == { <<TokLBrace>>, << <<"junk", "oops">> >> }

\* Another writer of the key space leaves a metadata field that does not parse.
Corrupt(t) ==
  /\ exists(store[t])
  /\ \E c \in CorruptTexts : store' = [store EXCEPT ![t] = hmset(@, [metadata |-> c])]
  /\ lastOk' = [lastOk EXCEPT ![t] = NoWrite]
  /\ UNCHANGED <<refused, files, transactions, media, fcall,
               clock, up, bg, blobs, rd, wr, called,
               hist, acked, allocated, tasks, decoded>>

\* Time passes.
Tick ==
  /\ clock < MaxClock
  /\ clock' = clock + 1
  /\ UNCHANGED <<refused, files, transactions, media, fcall,
               store, up, bg, blobs, rd, wr, called, lastOk,
               hist, acked, allocated, tasks, decoded>>

\* The key of a record expires or is deleted by another client of the store.
Expire(t) ==
  /\ exists(store[key(t)])
  /\ store' = [store EXCEPT ![key(t)] = EmptyHash]
  /\ lastOk' = [lastOk EXCEPT ![t] = NoWrite]
  /\ UNCHANGED <<refused, files, transactions, media, fcall,
               clock, up, bg, blobs, rd, wr, called,
               hist, acked, allocated, tasks, decoded>>

(***************************************************************************)
(* FileService: upload_file and upload_zoom_recording over the Redis       *)
(* hashes "files" and "transactions" and the storage directory.  Every     *)
(* await is a step of its own.                                             *)
(***************************************************************************)
\* HSET key field value on the fields of one hash.
hset(h, field, value) ==
  [f \in (DOMAIN h) \cup {field} |-> IF f = field THEN value ELSE h[f]]

\* An exception, as an HTTPException carries it; status_code 0 marks an
\* exception of another class.  NoException stands for a call that returned.
NoException == [status_code |-> 0, detail |-> ""]
HTTPException(status_code, detail) == [status_code |-> status_code, detail |-> detail]

\* The content types of the uploads; str.startswith on them.
FileContentTypes == {"audio/wav", "video/mp4", "text/plain", NoContentType}
startswith(s, prefix) ==
  \/ prefix = "audio/" /\ s = "audio/wav"
  \/ prefix = "video/" /\ s = "video/mp4"
  \/ prefix = "https://zoom.us/rec/" /\ s = "https://zoom.us/rec/abc"

\* The FileType, or the exception raised; content_type.startswith raises
\* AttributeError on None.
_get_file_type(content_type) ==
  IF content_type = NoContentType
  THEN [raised |-> TRUE, type |-> "none", exc |-> HTTPException(0, "AttributeError")]
  ELSE IF startswith(content_type, "audio/")
       THEN [raised |-> FALSE, type |-> "audio", exc |-> NoException]
  ELSE IF startswith(content_type, "video/")
       THEN [raised |-> FALSE, type |-> "video", exc |-> NoException]
  ELSE [raised |-> TRUE, type |-> "none",
        exc |-> HTTPException(400, "Unsupported file type. Only audio and video files are allowed.")]

\* file_id = f"file_{uuid4().hex[:8]}" and the two kinds of transaction id: call
\* c is given ids of its own.
file_id(c) == <<"file", c>>
upload_transaction_id(c) == <<"tx_upload", c>>
zoom_transaction_id(c) == <<"tx_upload_link", c>>
file_path(c) == <<file_id(c), "original">>

\* file_record.json(): the File model as JSON text.
File_json(c, type, transaction_id, now) ==
  json_dumps(PyDict(<< <<"id", PyStr(file_id(c))>>,
                       <<"title", PyStr("title")>>,
                       <<"type", PyStr(type)>>,
                       <<"status", PyStr("processing")>>,
                       <<"upload_date", PyStr(now)>>,
                       <<"expiry_date", PyStr(now + 30)>>,
                       <<"transaction_id", PyStr(transaction_id)>> >>))

\* json.dumps(transaction_data) of upload_file.
upload_transaction_data(c, now) ==
  json_dumps(PyDict(<< <<"id", PyStr(upload_transaction_id(c))>>,
                       <<"file_id", PyStr(file_id(c))>>,
                       <<"status", PyStr("processing")>>,
                       <<"created_at", PyStr(now)>>,
                       <<"type", PyStr("file_upload")>> >>))

\* json.dumps(transaction_data) of upload_zoom_recording.
zoom_transaction_data(c, url, now) ==
  json_dumps(PyDict(<< <<"id", PyStr(zoom_transaction_id(c))>>,
                       <<"file_id", PyStr(file_id(c))>>,
                       <<"status", PyStr("processing")>>,
                       <<"created_at", PyStr(now)>>,
                       <<"type", PyStr("zoom_upload")>>,
                       <<"url", PyStr(url)>> >>))

\* upload_file's `except Exception`: HTTPException is an Exception, so whatever
\* was raised inside the try block leaves as 500 "Failed to upload file".
upload_file_except(e) == HTTPException(500, "Failed to upload file")

\* upload_zoom_recording's handlers: an HTTPException is re-raised as it is,
\* anything else leaves as 500.
upload_zoom_except(e) ==
  IF e.status_code # 0 THEN e ELSE HTTPException(500, "Failed to process Zoom recording")

\* What StorageService.upload_file can do: write the file; fail before the
\* file is opened; fail after aiofiles.open created it.
StorageOutcomes == {"ok", "failed", "partial"}

FcFrame(pc, op, arg, raised) == [pc |-> pc, op |-> op, arg |-> arg, raised |-> raised]

\* upload_file up to its first await and through it: the type check, the ids,
\* await storage_service.upload_file(file, file_path).
FileUploadStore(c) ==
  /\ fcall[c].pc = "idle"
  /\ \E content_type \in FileContentTypes, o \in StorageOutcomes :
       LET ft == _get_file_type(content_type) IN
       IF ft.raised
       THEN /\ fcall' = [fcall EXCEPT ![c] =
                           FcFrame("done", "upload_file", content_type, upload_file_except(ft.exc))]
            /\ media' = media
       ELSE /\ media' = IF o = "failed" THEN media ELSE media \cup {file_path(c)}
            /\ fcall' = [fcall EXCEPT ![c] =
                           IF o = "ok"
                           THEN FcFrame("stored", "upload_file", content_type, NoException)
                           ELSE FcFrame("done", "upload_file", content_type,
                                        upload_file_except(HTTPException(500, "Failed to upload file")))]
  /\ UNCHANGED <<store, clock, up, bg, blobs, rd, wr, called, lastOk,
               hist, acked, allocated, tasks, decoded, refused, files, transactions>>

\* await redis_service.hset(files_key, file_id, file_record.json())
FileUploadHsetFile(c) ==
  /\ fcall[c].pc = "stored"
  /\ \E o \in StoreOutcomes :
       IF o = "ok"
       THEN /\ files' = hset(files, file_id(c),
                             File_json(c, _get_file_type(fcall[c].arg).type,
                                       upload_transaction_id(c), clock))
            /\ fcall' = [fcall EXCEPT ![c].pc = "file_set"]
       ELSE /\ files' = files
            /\ fcall' = [fcall EXCEPT ![c] =
                           FcFrame("done", @.op, @.arg,
                                   upload_file_except(HTTPException(0, "ConnectionError")))]
  /\ UNCHANGED <<store, clock, up, bg, blobs, rd, wr, called, lastOk,
               hist, acked, allocated, tasks, decoded, refused, transactions, media>>

\* await redis_service.hset(transactions_key, transaction_id, json.dumps(...));
\* return file_record
FileUploadHsetTransaction(c) ==
  /\ fcall[c].pc = "file_set" /\ fcall[c].op = "upload_file"
  /\ \E o \in StoreOutcomes :
       IF o = "ok"
       THEN /\ transactions' = hset(transactions, upload_transaction_id(c),
                                    upload_transaction_data(c, clock))
            /\ fcall' = [fcall EXCEPT ![c].pc = "done"]
       ELSE /\ transactions' = transactions
            /\ fcall' = [fcall EXCEPT ![c] =
                           FcFrame("done", @.op, @.arg,
                                   upload_file_except(HTTPException(0, "ConnectionError")))]
  /\ UNCHANGED <<store, clock, up, bg, blobs, rd, wr, called, lastOk,
               hist, acked, allocated, tasks, decoded, refused, files, media>>

\* The URLs of the Zoom requests.
ZoomUrls == {"https://zoom.us/rec/abc", "http://example.com/rec"}

\* upload_zoom_recording up to its first await and through it: the URL check,
\* the ids, await redis_service.hset(files_key, file_id, file_record.json()).
ZoomHsetFile(c) ==
  /\ fcall[c].pc = "idle"
  /\ \E url \in ZoomUrls, o \in StoreOutcomes :
       IF ~startswith(url, "https://zoom.us/rec/")
       THEN /\ files' = files
            /\ fcall' = [fcall EXCEPT ![c] =
                           FcFrame("done", "upload_zoom_recording", url,
                                   upload_zoom_except(HTTPException(400, "Invalid Zoom recording URL format")))]
       ELSE IF o = "ok"
       THEN /\ files' = hset(files, file_id(c), File_json(c, "zoom", zoom_transaction_id(c), clock))
            /\ fcall' = [fcall EXCEPT ![c] =
                           FcFrame("file_set", "upload_zoom_recording", url, NoException)]
       ELSE /\ files' = files
            /\ fcall' = [fcall EXCEPT ![c] =
                           FcFrame("done", "upload_zoom_recording", url,
                                   upload_zoom_except(HTTPException(0, "ConnectionError")))]
  /\ UNCHANGED <<store, clock, up, bg, blobs, rd, wr, called, lastOk,
               hist, acked, allocated, tasks, decoded, refused, transactions, media>>

\* await redis_service.hset(transactions_key, transaction_id, json.dumps(...));
\* return file_record
ZoomHsetTransaction(c) ==
  /\ fcall[c].pc = "file_set" /\ fcall[c].op = "upload_zoom_recording"
  /\ \E o \in StoreOutcomes :
       IF o = "ok"
       THEN /\ transactions' = hset(transactions, zoom_transaction_id(c),
                                    zoom_transaction_data(c, fcall[c].arg, clock))
            /\ fcall' = [fcall EXCEPT ![c].pc = "done"]
       ELSE /\ transactions' = transactions
            /\ fcall' = [fcall EXCEPT ![c] =
                           FcFrame("done", @.op, @.arg,
                                   upload_zoom_except(HTTPException(0, "ConnectionError")))]
  /\ UNCHANGED <<store, clock, up, bg, blobs, rd, wr, called, lastOk,
               hist, acked, allocated, tasks, decoded, refused, files, media>>

Init ==
  /\ store = [t \in TxIds |-> EmptyHash]
  /\ clock = 0
  /\ up = [t \in TxIds |-> [pc |-> "idle", err |-> "none"]]
  /\ bg = [t \in TxIds |-> [pc |-> "none", exc |-> "none", result |-> PyNone,
                            term |-> "none", notif |-> "none"]]
  /\ blobs = {}
  /\ rd = [pc |-> "idle", id |-> 1, kind |-> "none", data |-> EmptyHash, raw |-> EmptyHash,
           down |-> FALSE, absent |-> FALSE, afterReturn |-> FALSE, bgSilent |-> FALSE,
           uncalled |-> FALSE, vanished |-> FALSE, expect |-> NoWrite]
  /\ wr = [pc |-> "idle", n |-> 0, id |-> 1, status |-> "none", metadata |-> PyNone,
           result |-> "none", readback |-> EmptyHash, down |-> FALSE, lost |-> FALSE,
           fresh |-> FALSE, repeat |-> FALSE]
  /\ called = {}
  /\ lastOk = [t \in TxIds |-> NoWrite]
  /\ hist = [t \in TxIds |-> <<>>]
  /\ acked = [t \in TxIds |-> 0]
  /\ allocated = {}
  /\ tasks = [t \in TxIds |-> 0]
  /\ decoded = [t \in TxIds |-> 0]
  /\ refused = [t \in TxIds |-> NoFile]
  /\ files = EmptyHash
  /\ transactions = EmptyHash
  /\ media = {}
  /\ fcall = [c \in FileCalls |-> [pc |-> "idle", op |-> "none", arg |-> "none",
                                   raised |-> NoException]]

Next ==
  \/ \E t \in TxIds : UploadValidate(t)
  \/ \E t \in TxIds : UploadPending(t)
  \/ \E t \in TxIds : UploadSaveFile(t)
  \/ \E t \in TxIds : UploadReturn(t)
  \/ \E t \in TxIds : BgProcessing(t)
  \/ \E t \in TxIds : BgProcessAudio(t)
  \/ \E t \in TxIds : BgFinal(t)
  \/ \E t \in TxIds : BgNotify(t)
  \/ \E t \in TxIds : BgHandler(t)
  \/ \E t \in PolledIds : ReadExists(t)
  \/ ReadHgetall

\* The upload route, its background tasks and a status poller.
Spec == Init /\ [][Next]_vars

NextTracker ==
  \/ \E t \in ClientIds : ClientUpdate(t)
  \/ \E t \in PolledIds : Corrupt(t)
  \/ Tick
  \/ \E t \in PolledIds : ReadExists(t)
  \/ ReadHgetall

\* The tracker alone, driven by a direct client, with a second writer of the key
\* space and a status poller.
SpecTracker == Init /\ [][NextTracker]_vars

NextLossy ==
  \/ NextTracker
  \/ \E t \in ClientIds : ClientUpdateLost(t)

\* The tracker over a store that can drop an acknowledged write.
SpecLossy == Init /\ [][NextLossy]_vars

(***************************************************************************)
(* The route and its tasks over a store whose status writes succeed, the   *)
(* tasks being run to their end: the event loop runs a task that was added *)
(* and resumes a coroutine whose awaited call has returned or raised.      *)
(***************************************************************************)
UploadPendingAcked(t) == UploadPending(t) /\ up'[t].pc = "pending_ok"
BgProcessingAcked(t) == BgProcessing(t) /\ bg'[t].pc = "processing_ok"
BgFinalAcked(t) == BgFinal(t) /\ bg'[t].pc = "final_ok"
BgHandlerAcked(t) == BgHandler(t) /\ bg'[t].pc = "done"

\* The next step of the task of transaction t.
BgLive(t) ==
  \/ BgProcessingAcked(t)
  \/ BgProcessAudio(t)
  \/ BgFinalAcked(t)
  \/ BgNotify(t)
  \/ BgHandlerAcked(t)

NextLive ==
  \/ \E t \in TxIds : UploadValidate(t)
  \/ \E t \in TxIds : UploadPendingAcked(t)
  \/ \E t \in TxIds : UploadSaveFile(t)
  \/ \E t \in TxIds : UploadReturn(t)
  \/ \E t \in TxIds : BgProcessingAcked(t)
  \/ \E t \in TxIds : BgProcessAudio(t)
  \/ \E t \in TxIds : BgFinalAcked(t)
  \/ \E t \in TxIds : BgNotify(t)
  \/ \E t \in TxIds : BgHandlerAcked(t)

SpecLive == Init /\ [][NextLive]_vars /\ \A t \in TxIds : WF_vars(BgLive(t))

NextExpiry ==
  \/ \E t \in ClientIds : ClientUpdate(t)
  \/ \E t \in PolledIds : Expire(t)
  \/ \E t \in PolledIds : ReadExists(t)
  \/ ReadHgetall

\* The tracker over a store whose keys can expire or be deleted: a direct
\* client, the expiry and a status poller.
SpecExpiry == Init /\ [][NextExpiry]_vars

NextFiles ==
  \/ \E c \in FileCalls : FileUploadStore(c)
  \/ \E c \in FileCalls : FileUploadHsetFile(c)
  \/ \E c \in FileCalls : FileUploadHsetTransaction(c)
  \/ \E c \in FileCalls : ZoomHsetFile(c)
  \/ \E c \in FileCalls : ZoomHsetTransaction(c)

\* The file service: upload calls of both kinds, running concurrently.
SpecFiles == Init /\ [][NextFiles]_vars

(***************************************************************************)
(* Properties                                                              *)
(***************************************************************************)
\* The status a hash carries; "absent" for a key that does not exist.
StatusOf(h) == IF "status" \in DOMAIN h THEN h["status"] ELSE "absent"

\* pending < processing < {completed, error}, with no record below them all.
Rank(h) ==
  CASE StatusOf(h) = "absent" -> 0
    [] StatusOf(h) = "pending" -> 1
    [] StatusOf(h) = "processing" -> 2
    [] StatusOf(h) \in {"completed", "error"} -> 3

\* C1: when upload_audio has returned an id the record exists, and it is pending
\* until the background task writes; no task is scheduled or running for an id
\* without a record; a read issued after the return never ends in
\* TransactionNotFoundError, and returns pending while the task has written
\* nothing.
C1_PendingBeforeTask ==
  /\ \A t \in TxIds :
       /\ up[t].pc = "returned" => exists(store[uuid4(t)])
       /\ bg[t].pc # "none" => exists(store[t])
       /\ (up[t].pc = "returned" /\ bg[uuid4(t)].pc = "scheduled")
            => StatusOf(store[uuid4(t)]) = "pending"
  /\ (rd.pc = "done" /\ rd.afterReturn) =>
       /\ rd.kind # "TransactionNotFoundError"
       /\ (rd.bgSilent /\ rd.kind = "ok") => StatusOf(rd.data) = "pending"

\* A poll issued after the return and answered before the task's first write.
C1_Witness ==
  /\ rd.pc = "done" /\ rd.afterReturn /\ rd.bgSilent
  /\ rd.kind = "ok" /\ StatusOf(rd.data) = "pending"
  /\ bg[rd.id].pc = "scheduled"

\* C2: a read of an id for which update_transaction_status never ran does not
\* find a record: it ends in TransactionNotFoundError whenever the store answers,
\* whatever other transactions are stored.
C2_NeverWrittenNotFound ==
  (rd.pc = "done" /\ rd.uncalled) =>
    /\ rd.kind \in {"TransactionNotFoundError", "RedisConnectionError"}
    /\ ~rd.down => rd.kind = "TransactionNotFoundError"

\* Not found, while another transaction is stored.
C2_Witness ==
  /\ rd.pc = "done" /\ rd.uncalled /\ rd.kind = "TransactionNotFoundError"
  /\ rd.id \notin called
  /\ \E t \in TxIds \ {rd.id} : exists(store[t])

\* C3: when process_audio_background has returned, the stored status is completed
\* or error, also after an exception was caught.
C3_TerminalWhenFinished ==
  \A t \in TxIds : bg[t].pc = "done" => StatusOf(store[t]) \in {"completed", "error"}

\* A task that caught an exception of a processing step and has returned.
C3_Witness ==
  \E t \in TxIds :
    /\ bg[t].pc = "done" /\ bg[t].exc \in {"ProcessingError", "AudioDurationError", "StorageError"}
    /\ StatusOf(store[t]) = "error"

\* C4: no write of upload_audio or process_audio_background lowers the status in
\* the order pending < processing < {completed, error}, and the first status
\* written for an id is pending.
C4_Monotonic ==
  [][\A t \in TxIds :
       /\ Rank(store'[t]) >= Rank(store[t])
       /\ (Rank(store[t]) = 0 /\ Rank(store'[t]) > 0) => StatusOf(store'[t]) = "pending"]_vars

\* A transaction written up to completed, its task still running.
C4_Witness ==
  \E t \in TxIds : bg[t].pc = "final_ok" /\ StatusOf(store[t]) = "completed"
\* C5: once the task has written completed, a failure of the user-history
\* notification changes nothing: the status stays completed, and the task never
\* writes a status for a transaction it has put in a terminal state.
C5_CompletedStays ==
  \A t \in TxIds :
    bg[t].term = "completed" =>
      StatusOf(store[t]) = "completed"

\* C6: a task that has returned has attempted the notification, on the error
\* outcome as well as on the completed one, and only after the terminal status
\* was written.
C6_NotifiedOnBothOutcomes ==
  \A t \in TxIds :
    /\ bg[t].pc = "done" => bg[t].notif # "none"
    /\ bg[t].notif # "none" => bg[t].term # "none"

\* A Python value as JSON carries it: every tuple is a list.
RECURSIVE JsonForm(_)
JsonForm(v) ==
  CASE v[1] \in {"list", "tuple"} -> PyList([i \in 1..Len(v[2]) |-> JsonForm(v[2][i])])
    [] v[1] = "dict" ->
         PyDict([i \in 1..Len(v[2]) |-> <<v[2][i][1], JsonForm(v[2][i][2])>>])
    [] OTHER -> v

\* The metadata argument as written: None and {} stand for the empty mapping.
Written(m) == IF Truthy(m) THEN m ELSE EmptyDict

\* A successful read of an id whose last write returned successfully and was
\* followed by no other write.
ReadOfLastWrite == rd.pc = "done" /\ rd.kind = "ok" /\ rd.expect # NoWrite

\* C7 as stated: the read returns the written status and metadata equal to m.
C7_RoundTripExact ==
  ReadOfLastWrite =>
    /\ StatusOf(rd.data) = rd.expect[2]
    /\ rd.data["metadata"] = Written(rd.expect[3])

\* C7: the read returns the written status and the metadata that JSON carries:
\* m with every tuple read back as a list, so m itself when it holds no tuple;
\* None and {} read back as the empty mapping.
C7_RoundTripJson ==
  ReadOfLastWrite =>
    /\ StatusOf(rd.data) = rd.expect[2]
    /\ rd.data["metadata"] = JsonForm(Written(rd.expect[3]))
    /\ JsonForm(rd.expect[3]) = rd.expect[3] => rd.data["metadata"] = Written(rd.expect[3])

\* A nested mapping read back as written.
C7_Witness ==
  /\ ReadOfLastWrite
  /\ rd.expect[2] = "pending" /\ Truthy(rd.expect[3])
  /\ rd.data["metadata"] = rd.expect[3]

\* C8: when the stored metadata is not JSON the read succeeds with the stored
\* status and updated_at and with empty metadata.
C8_CorruptMetadataDegrades ==
  (rd.pc = "done" /\ "metadata" \in DOMAIN rd.raw /\ rd.raw["metadata"] \in CorruptTexts) =>
    /\ rd.kind = "ok"
    /\ rd.data["status"] = rd.raw["status"]
    /\ rd.data["updated_at"] = rd.raw["updated_at"]
    /\ rd.data["metadata"] = EmptyDict

\* A read of a record whose metadata was corrupted after a write with metadata.
C8_Witness ==
  /\ rd.pc = "done" /\ rd.kind = "ok"
  /\ "metadata" \in DOMAIN rd.raw /\ rd.raw["metadata"] \in CorruptTexts
  /\ rd.data["status"] = "pending"

\* C9: a call that returns without raising met, at its read-back, a record with
\* the status and metadata it wrote; a call whose write the store dropped fails
\* with RedisConnectionError.
C9_LostWriteDetected ==
  wr.pc = "done" =>
    /\ wr.result = "ok" =>
         /\ StatusOf(wr.readback) = wr.status
         /\ wr.readback["metadata"] = status_data(wr.status, wr.metadata, 0)["metadata"]
    /\ wr.lost => wr.result = "RedisConnectionError"

\* C10: a read ends in TransactionNotFoundError only when a store call answered
\* and found no fields, and in RedisConnectionError exactly when a store call
\* raised; an update whose store call raised ends in RedisConnectionError.
C10_NotFoundVersusUnavailable ==
  /\ rd.pc = "done" =>
       /\ rd.kind = "TransactionNotFoundError" => (rd.absent /\ ~rd.down)
       /\ rd.down => rd.kind = "RedisConnectionError"
       /\ rd.absent => rd.kind = "TransactionNotFoundError"
  /\ wr.pc = "done" =>
       (wr.down => wr.result = "RedisConnectionError")

\* A read of a stored record and an update, both cut off by the store.
C10_Witness ==
  /\ rd.pc = "done" /\ rd.down /\ rd.kind = "RedisConnectionError"
  /\ wr.pc = "done" /\ wr.down /\ wr.result = "RedisConnectionError"
  /\ exists(store[rd.id])

\* C11: a read that ends when update_transaction_status has returned successfully
\* for its id, whatever the task of the id and the other transactions did in
\* between, does not end in TransactionNotFoundError, and the status it returns
\* is the acknowledged one or one stored after it, never an earlier one.
C11_ReadAfterWrite ==
  [][(rd'.pc = "done" /\ rd' # rd /\ acked[rd'.id] > 0) =>
       /\ rd'.kind # "TransactionNotFoundError"
       /\ rd'.kind = "ok" =>
            \E i \in acked[rd'.id]..Len(hist[rd'.id]) :
              hist[rd'.id][i] = StatusOf(rd'.data)]_vars

\* A read that returned processing, the last status acknowledged, while the
\* task runs on and another transaction is stored.
C11_Witness ==
  /\ rd.pc = "done" /\ rd.kind = "ok" /\ StatusOf(rd.data) = "processing"
  /\ acked[rd.id] = 2 /\ hist[rd.id] = <<"pending", "processing">>
  /\ bg[rd.id].pc = "processing_ok"
  /\ \E t \in TxIds \ {rd.id} : exists(store[t])

\* C12: an upload whose content type maps to no supported format is rejected with
\* FileFormatError and one whose size is over max_file_size_mb with FileSizeError;
\* a rejected upload has allocated no id, written no record, saved no blob and
\* scheduled no task.
C12_RejectedNoSideEffects ==
  \A t \in TxIds :
    up[t].pc = "rejected" =>
      /\ up[t].err \in {"FileFormatError", "FileSizeError"}
      /\ uuid4(t) \notin allocated /\ uuid4(t) \notin called
      /\ ~exists(store[key(uuid4(t))]) /\ hist[uuid4(t)] = <<>>
      /\ \A b \in blobs : b[1] # t
      /\ tasks[uuid4(t)] = 0 /\ bg[uuid4(t)].pc = "none"

\* C13: an upload that failed at its pending write or at the blob save ends in
\* the infrastructure error met, RedisConnectionError or StorageError, not in
\* another kind, and has scheduled no task.
C13_InfrastructureErrorPropagated ==
  \A t \in TxIds :
    up[t].pc = "failed" =>
      /\ up[t].err \in {"RedisConnectionError", "StorageError"}
      /\ tasks[uuid4(t)] = 0 /\ bg[uuid4(t)].pc = "none"

\* C14: the duration is measured in the background task only, after the upload
\* has returned with the record pending.  A duration over max_duration_seconds
\* never completes; the task that returns leaves status error with metadata
\* naming the duration error.  A duration up to the maximum, the maximum included,
\* raises no duration error.
C14_DurationCheckedInBackground ==
  \A t \in TxIds :
    /\ decoded[t] # 0 => (up[t].pc = "returned" /\ hist[t][1] = "pending")
    /\ decoded[t] > max_duration_seconds =>
         /\ bg[t].pc \in {"handler", "done", "crashed"}
         /\ bg[t].term # "completed"
         /\ bg[t].pc = "done" =>
              /\ StatusOf(store[t]) = "error"
              /\ store[t]["metadata"] = json_dumps(error_metadata("AudioDurationError"))
    /\ (decoded[t] # 0 /\ decoded[t] <= max_duration_seconds) =>
         /\ bg[t].exc # "AudioDurationError"
         /\ StatusOf(store[t]) = "error" =>
              store[t]["metadata"] # json_dumps(error_metadata("AudioDurationError"))

\* One clip just over the maximum ended in error, one of exactly the maximum
\* completed.
C14_Witness ==
  \E t \in TxIds, u \in TxIds :
    /\ decoded[t] = max_duration_seconds + 1 /\ bg[t].pc = "done"
    /\ StatusOf(store[t]) = "error"
    /\ decoded[u] = max_duration_seconds /\ bg[u].pc = "done"
    /\ StatusOf(store[u]) = "completed"

\* C15: an upload that has returned has added exactly one task, for the id it
\* returns; an upload that has not returned, a failed or rejected one included,
\* has added none; no id has two tasks, and a task runs only for an id given
\* to add_task.
C15_OneTaskPerUpload ==
  \A t \in TxIds :
    /\ tasks[uuid4(t)] = IF up[t].pc = "returned" THEN 1 ELSE 0
    /\ tasks[t] <= 1
    /\ bg[t].pc # "none" => tasks[t] = 1

\* One upload returned with its task added, the other failed with none.
C15_Witness ==
  \E t \in TxIds, u \in TxIds :
    /\ up[t].pc = "returned" /\ tasks[uuid4(t)] = 1 /\ bg[uuid4(t)].pc = "scheduled"
    /\ up[u].pc = "failed" /\ tasks[uuid4(u)] = 0

\* C16: two uploads have two ids; the record of a transaction changes only in
\* steps of its own upload or task, whatever the others do; and the status a
\* task leaves when it returns is settled by its own outcome, completed when it
\* caught no exception and error when it caught one.
C16_Isolation ==
  /\ [](\A t \in TxIds :
          /\ \A u \in TxIds \ {t} : uuid4(t) # uuid4(u)
          /\ bg[t].pc = "done" =>
               StatusOf(store[key(t)]) = IF bg[t].exc = "none" THEN "completed" ELSE "error")
  /\ [][\A t \in TxIds :
          (up'[t] = up[t] /\ bg'[t] = bg[t]) => store'[key(t)] = store[key(t)]]_vars

\* Both tasks returned, one after a processing failure and one completed.
C16_Witness ==
  \E t \in TxIds, u \in TxIds :
    /\ bg[t].pc = "done" /\ bg[t].exc = "ProcessingError" /\ StatusOf(store[key(t)]) = "error"
    /\ bg[u].pc = "done" /\ bg[u].exc = "none" /\ StatusOf(store[key(u)]) = "completed"

\* C17: when every call of a task returns or raises, the status writes succeed
\* and the task is run, a transaction whose upload returned comes to status
\* completed or error and from then on keeps a terminal status.
C17_EventuallyTerminal ==
  \A t \in TxIds :
    (up[t].pc = "returned") ~> [](StatusOf(store[key(uuid4(t))]) \in {"completed", "error"})

\* A task that went through an exception to its end, the record terminal.
C17_Witness ==
  \E t \in TxIds :
    /\ up[t].pc = "returned" /\ bg[uuid4(t)].pc = "done" /\ bg[uuid4(t)].exc # "none"
    /\ StatusOf(store[key(uuid4(t))]) = "error"

\* C18: a call the store answers succeeds and leaves a record with the status
\* given, with no create step before it, also for an id that had no record; a
\* call that repeats the one before it leaves the status and the metadata that
\* one left, updated_at alone being free to differ.
C18_CreateAndIdempotent ==
  [][wr'.n = wr.n + 1 =>
       LET k == key(wr'.id) IN
       /\ (~wr'.down /\ ~wr'.lost) =>
            /\ wr'.result = "ok"
            /\ exists(store'[k]) /\ StatusOf(store'[k]) = wr'.status
       /\ (wr'.repeat /\ wr'.result = "ok") =>
            /\ DOMAIN store'[k] = DOMAIN store[k]
            /\ store'[k]["status"] = store[k]["status"]
            /\ store'[k]["metadata"] = store[k]["metadata"]]_vars

\* The first call created the record and the second repeated it, the clock
\* having moved.
C18_Witness ==
  /\ wr.pc = "done" /\ wr.n = 2 /\ wr.repeat /\ wr.result = "ok"
  /\ Truthy(wr.metadata)
  /\ store[key(wr.id)]["updated_at"] = 1

\* C19: a record in the store has the three fields status, updated_at and
\* metadata, written together, and its status is pending, processing, completed
\* or error; so has every record a read returns, whenever the read is made.
C19_StatusWellDefined ==
  /\ \A t \in TxIds :
       exists(store[t]) =>
         /\ DOMAIN store[t] = {"status", "updated_at", "metadata"}
         /\ store[t]["status"] \in Statuses
  /\ (rd.pc = "done" /\ rd.kind = "ok") =>
       /\ DOMAIN rd.data = {"status", "updated_at", "metadata"}
       /\ rd.data["status"] \in Statuses

\* A read that returned completed while the task of the id had not returned and
\* the other transaction was mid-way.
C19_Witness ==
  /\ rd.pc = "done" /\ rd.kind = "ok" /\ rd.data["status"] = "completed"
  /\ bg[rd.id].pc = "final_ok"
  /\ \E t \in TxIds \ {rd.id} : StatusOf(store[t]) = "processing"

\* The keys of a mapping.
DictKeys(d) == {d[2][i][1] : i \in 1..Len(d[2])}

\* The stored metadata of a record, parsed.
MetadataOf(h) == json_loads(h["metadata"]).val

\* C20: the metadata of a completed transaction holds duration, sample_rate,
\* channels, processed_path and the classifier output, a sequence that is not
\* empty.
C20_CompletedMetadata ==
  \A t \in TxIds :
    StatusOf(store[t]) = "completed" =>
      LET md == MetadataOf(store[t]) IN
      /\ {"duration", "sample_rate", "channels", "processed_path", "predictions"}
            \subseteq DictKeys(md)
      /\ LET p == DictGet(md[2], "predictions", 1) IN
         /\ "sequence" \in DictKeys(p)
         /\ Len(DictGet(p[2], "sequence", 1)[2]) > 0
\* The exceptions a step of process_audio raises.
ProcessExceptions == {"ProcessingError", "AudioDurationError", "StorageError"}

\* C21: the task runs processing-write, decode, duration check, transform, save
\* of the transformed audio, classify, completed-write in this order; a step from
\* decode to classify that fails skips the later steps (so the audio is saved
\* only after the steps before the save passed, and a classifier failure comes
\* with the audio saved), the task then writes "error" with metadata naming the
\* exception, never "completed", and nothing that was saved is taken away.
C21_StepsInOrder ==
  /\ [](/\ \A t \in TxIds, f \in AudioFiles, st \in ServiceType :
            LET r == audio_service_process_audio(st, t, f)
                before_save == /\ f.load_ok /\ ~(f.duration > max_duration_seconds)
                               /\ f.preprocess_ok /\ f.save_ok
            IN /\ r.saved <=> before_save
               /\ r.raised = "none" <=> (before_save /\ (st = "full" => f.predict_ok))
               /\ r.raised = "AudioDurationError" <=>
                    (f.load_ok /\ f.duration > max_duration_seconds)
               /\ r.raised = "StorageError" <=>
                    (f.load_ok /\ ~(f.duration > max_duration_seconds)
                     /\ f.preprocess_ok /\ ~f.save_ok)
        /\ \A t \in TxIds :
            /\ bg[t].pc \in {"processing_ok", "processed", "final_ok"} =>
                 \E i \in 1..Len(hist[t]) : hist[t][i] = "processing"
            /\ bg[t].pc \in {"processed", "final_ok"} =>
                 (decoded[t] # 0 /\ <<t, "processed">> \in blobs)
            /\ \A i \in 1..Len(hist[t]) :
                 hist[t][i] = "completed" =>
                   /\ <<t, "processed">> \in blobs
                   /\ \E j \in 1..(i - 1) : hist[t][j] = "processing"
            /\ (bg[t].exc \in {"AudioDurationError", "StorageError"}
                \/ decoded[t] > max_duration_seconds) => <<t, "processed">> \notin blobs
            /\ bg[t].exc \in ProcessExceptions =>
                 /\ bg[t].pc \in {"handler", "done", "crashed"}
                 /\ bg[t].term # "completed"
                 /\ \A i \in 1..Len(hist[t]) : hist[t][i] # "completed"
                 /\ bg[t].pc = "done" =>
                      /\ StatusOf(store[key(t)]) = "error"
                      /\ store[key(t)]["metadata"] = json_dumps(error_metadata(bg[t].exc)))
  /\ [][blobs \subseteq blobs']_vars

\* The classifier failed after the processed audio was saved; the task ended
\* with the error written and the saved audio still there.
C21_Witness ==
  \E t \in TxIds :
    /\ bg[t].pc = "done" /\ bg[t].exc = "ProcessingError"
    /\ <<t, "processed">> \in blobs
    /\ StatusOf(store[key(t)]) = "error"
    /\ \E i \in 1..Len(hist[t]) : hist[t][i] = "processing"

\* C22: an exception raised inside the try block of process_audio_background
\* takes the task to its except clause and to an attempt to write "error"; it
\* never leaves the task and never changes the upload request, which has
\* returned without error.  The task is left by an exception only when the
\* error write itself fails, with RedisConnectionError; the record then keeps
\* what it held, or holds "error" when only the read-back failed.
C22_OnlyTheErrorWriteEscapes ==
  /\ [](\A t \in TxIds :
          /\ bg[t].exc # "none" => bg[t].pc \in {"handler", "done", "crashed"}
          /\ bg[t].pc = "crashed" => bg[t].exc = "RedisConnectionError"
          /\ (bg[t].pc = "done" /\ bg[t].exc # "none") => StatusOf(store[key(t)]) = "error"
          /\ bg[t].pc # "none" => (up[t].pc = "returned" /\ up[t].err = "none"))
  /\ [][\A t \in TxIds :
          /\ (bg'[t] # bg[t] /\ bg[t].pc # "none") => up' = up
          /\ (bg'[t].pc = "crashed" /\ bg[t].pc # "crashed") =>
               /\ bg[t].pc = "handler"
               /\ store'[key(t)] = store[key(t)] \/ StatusOf(store'[key(t)]) = "error"
          /\ (bg[t].pc = "handler" /\ bg'[t] # bg[t]) =>
               /\ bg'[t].pc \in {"done", "crashed"}
               /\ bg'[t].pc = "done" => StatusOf(store'[key(t)]) = "error"]_vars

\* process_audio ran and the task was left by the failure of its error write,
\* the record still saying "processing".
C22_Witness ==
  \E t \in TxIds :
    /\ bg[t].pc = "crashed" /\ bg[t].exc = "RedisConnectionError"
    /\ decoded[t] # 0
    /\ StatusOf(store[key(t)]) = "processing"
    /\ up[t].pc = "returned" /\ up[t].err = "none"

\* The records a status write can meet: none, or one with any of the statuses.
RecordsMet == {EmptyHash} \cup {status_data(s, PyNone, 0) : s \in Statuses}

\* C23: update_transaction_status checks no transition.  Over a store that
\* answers, a call with status s succeeds whatever the record holds, backward
\* steps and steps out of a terminal status included, and leaves s stored; a
\* read that follows the call returns s.
C23_AnyTransitionAccepted ==
  /\ [](/\ \A h \in RecordsMet, in \in WriteInputs :
            LET u == update_transaction_status(h, in[1], in[2], clock, "ok", "ok") IN
            u.result = "ok" /\ StatusOf(u.hash) = in[1]
        /\ ReadOfLastWrite => StatusOf(rd.data) = rd.expect[2])
  /\ [][wr' # wr =>
          /\ ~wr'.down => wr'.result = "ok"
          /\ wr'.result = "ok" => StatusOf(store'[key(wr'.id)]) = wr'.status]_vars

\* A record read as completed was then written pending, the call succeeded and
\* pending is what the store holds.
C23_Witness ==
  /\ rd.pc = "done" /\ rd.kind = "ok" /\ StatusOf(rd.data) = "completed"
  /\ wr.pc = "done" /\ wr.n = 2 /\ wr.id = rd.id /\ ~wr.fresh
  /\ wr.status = "pending" /\ wr.result = "ok"
  /\ StatusOf(store[key(wr.id)]) = "pending"

\* The exceptions the except clause of process_audio_background can meet.
TaskExceptions == ProcessExceptions \cup {"RedisConnectionError", "AuthenticationError"}

\* The metadata argument of the status write that stores status s for
\* transaction t: each status is written at one place of the route or the task.
WrittenWith(t, s) ==
  CASE s = "pending" -> {pending_metadata(t, clock)}
    [] s = "processing" -> {PyNone}
    [] s = "completed" -> {bg[t].result}
    [] s = "error" -> {error_metadata(e) : e \in TaskExceptions}
    [] OTHER -> {}

\* C24 as stated: a read returns exactly the metadata of the last status write.
C24_ReplacedExact ==
  (rd.pc = "done" /\ rd.kind = "ok") =>
    \E m2 \in WrittenWith(rd.id, StatusOf(rd.data)) : rd.data["metadata"] = Written(m2)

\* C24: every status write replaces the metadata field as a whole.  The stored
\* metadata is the JSON text of the metadata of the last write alone, and a read
\* returns that metadata as JSON carries it (a tuple as a list, no metadata as
\* the empty mapping), with the keys of that write and no key of an earlier
\* one; after the processing write a read returns no filename, user_id or
\* upload_time.
C24_ReplacedWholesale ==
  /\ \A t \in TxIds :
       exists(store[key(t)]) =>
         \E m2 \in WrittenWith(t, StatusOf(store[key(t)])) :
           store[key(t)]["metadata"] = status_data("none", m2, clock)["metadata"]
  /\ (rd.pc = "done" /\ rd.kind = "ok") =>
       /\ \E m2 \in WrittenWith(rd.id, StatusOf(rd.data)) :
            /\ rd.data["metadata"] = JsonForm(Written(m2))
            /\ DictKeys(rd.data["metadata"]) = DictKeys(Written(m2))
       /\ StatusOf(rd.data) # "pending" =>
            DictKeys(rd.data["metadata"]) \cap {"filename", "user_id", "upload_time"} = {}
       /\ StatusOf(rd.data) = "processing" => rd.data["metadata"] = EmptyDict

\* A read after the processing write, which followed the pending write with its
\* three keys: the metadata returned is empty.
C24_Witness ==
  /\ rd.pc = "done" /\ rd.kind = "ok" /\ StatusOf(rd.data) = "processing"
  /\ hist[rd.id] = <<"pending", "processing">>
  /\ rd.data["metadata"] = EmptyDict
  /\ DictKeys(pending_metadata(rd.id, clock)) = {"filename", "user_id", "upload_time"}

\* C25: a status write that the store accepts sets updated_at to the time of
\* the writer; with a clock that does not run backwards the updated_at of a
\* record never decreases; a step of a read changes no record.
C25_UpdatedAt ==
  [][/\ wr' # wr =>
          /\ wr'.result = "ok" => store'[key(wr'.id)]["updated_at"] = clock
          /\ store'[key(wr'.id)] # store[key(wr'.id)] =>
               store'[key(wr'.id)]["updated_at"] = clock
     /\ clock' >= clock
     /\ \A t \in TxIds :
          exists(store[key(t)]) =>
            /\ exists(store'[key(t)])
            /\ store'[key(t)]["updated_at"] >= store[key(t)]["updated_at"]
     /\ rd' # rd => store' = store]_vars

\* A record read with the time of its first write, then written again at a
\* later time, which it now carries.
C25_Witness ==
  /\ rd.pc = "done" /\ rd.kind = "ok" /\ rd.data["updated_at"] = 0
  /\ wr.pc = "done" /\ wr.n = 2 /\ wr.id = rd.id /\ wr.result = "ok"
  /\ clock = 1 /\ store[key(wr.id)]["updated_at"] = 1

\* C26: a record is present only for an upload that is running past its pending
\* write or has returned the id with its task added; an upload that failed has
\* left no record.
C26_NoRecordWithoutTask ==
  \A t \in TxIds :
    /\ exists(store[key(uuid4(t))]) => up[t].pc \in {"pending_ok", "saved", "returned"}
    /\ up[t].pc = "returned" => tasks[uuid4(t)] = 1
    /\ up[t].pc \in {"rejected", "failed"} =>
         (~exists(store[key(uuid4(t))]) /\ tasks[uuid4(t)] = 0)

\* The size limit in bytes.
MaxBytes == max_file_size_mb * 1024 * 1024

\* The content type maps, case-insensitively, to a supported format.
TypeSupported(content_type) ==
  \E ct \in {"audio/mpeg", "audio/wav", "audio/wave", "audio/x-wav", "audio/ogg",
              "audio/flac", "audio/x-flac", "audio/mp4", "audio/aac", "audio/x-aac"} :
    /\ Lower(content_type) = ct
    /\ mime_to_extension(ct) \in supported_formats

\* C27: validate_audio_file accepts a file exactly when its content type maps,
\* case-insensitively, to a supported format and its size is at most the limit
\* in bytes; an upload the validation refused whose type is not supported was
\* refused with FileFormatError, whatever its size, and one with a supported
\* type with FileSizeError.
C27_ValidationOrder ==
  /\ \A file \in UploadFiles :
       validate_audio_file(file) = "ok" <=>
         (TypeSupported(file.content_type) /\ file.size <= MaxBytes)
  /\ \A t \in TxIds :
       refused[t] # NoFile =>
         /\ up[t].pc = "rejected"
         /\ validate_audio_file(refused[t]) =
              IF ~TypeSupported(refused[t].content_type) THEN "FileFormatError"
              ELSE "FileSizeError"

\* The records a single status write of the client leaves.
WholeRecords ==
  {status_data(in[1], in[2], now) : in \in WriteInputs, now \in 0..MaxClock}

\* C28: a read whose existence check passed and whose record was gone when the
\* fields were fetched ends in TransactionNotFoundError; a read that returns a
\* record returns one with a status, the record as one status write left it,
\* whatever was written or deleted between its two store calls.
C28_ReadBetweenTwoCalls ==
  /\ [](rd.pc = "done" =>
          /\ rd.vanished => rd.kind = "TransactionNotFoundError"
          /\ rd.kind = "ok" =>
               /\ DOMAIN rd.data = {"status", "updated_at", "metadata"}
               /\ rd.data["status"] \in Statuses
               /\ rd.raw \in WholeRecords
               /\ rd.data = parse_metadata(rd.raw))
  /\ [][(rd.pc = "hgetall" /\ rd'.pc = "done") =>
          /\ (~exists(store[key(rd.id)]) /\ ~rd'.down) =>
               rd'.kind = "TransactionNotFoundError"
          /\ rd'.kind = "ok" => rd'.raw = store[key(rd.id)]]_vars

\* A read whose existence check passed and that found the record gone.
C28_Witness ==
  /\ rd.pc = "done" /\ rd.vanished
  /\ rd.kind = "TransactionNotFoundError"
  /\ wr.pc = "done" /\ wr.id = rd.id /\ wr.result = "ok"

\* The content type starts with neither "audio/" nor "video/".
NeitherAudioNorVideo(content_type) ==
  ~startswith(content_type, "audio/") /\ ~startswith(content_type, "video/")

\* Nothing of call c is stored: no blob, no file record, no transaction record.
NothingStored(c) ==
  /\ file_path(c) \notin media
  /\ file_id(c) \notin DOMAIN files
  /\ upload_transaction_id(c) \notin DOMAIN transactions

\* C29: an upload_file call whose content type starts with neither "audio/" nor
\* "video/" ends in HTTP 400 "Unsupported file type. Only audio and video files
\* are allowed." and has stored nothing.
C29_UnsupportedTypeIs400 ==
  \A c \in FileCalls :
    (/\ fcall[c].pc = "done" /\ fcall[c].op = "upload_file"
     /\ fcall[c].arg # NoContentType /\ NeitherAudioNorVideo(fcall[c].arg)) =>
      /\ fcall[c].raised =
           HTTPException(400, "Unsupported file type. Only audio and video files are allowed.")
      /\ NothingStored(c)

\* The file id a stored record names under the given key; NoId when the text is
\* no JSON object with the key.
NoId == <<"none">>
NamedIn(text, k) ==
  LET r == json_loads(text) IN
  IF r.ok /\ r.val[1] = "dict" /\ k \in DictKeys(r.val) THEN DictGet(r.val[2], k, 1)[2] ELSE NoId

\* No upload call is between two of its steps.
CallsEnded == \A c \in FileCalls : fcall[c].pc \in {"idle", "done"}

\* C30: when every upload_file and upload_zoom_recording call has ended, a file
\* record with transaction id t exists exactly when the transactions hash holds
\* a record t naming that file, and every stored blob has its file record.
C30_FilesMatchTransactions ==
  CallsEnded =>
    /\ \A f \in DOMAIN files :
         LET t == NamedIn(files[f], "transaction_id") IN
         /\ t \in DOMAIN transactions
         /\ NamedIn(transactions[t], "file_id") = f
    /\ \A t \in DOMAIN transactions :
         LET f == NamedIn(transactions[t], "file_id") IN
         /\ f \in DOMAIN files
         /\ NamedIn(files[f], "transaction_id") = t
    /\ \A c \in FileCalls : file_path(c) \in media => file_id(c) \in DOMAIN files

====
